---- MODULE Spec2Model ----
(***************************************************************************)
(* A model of the GitHub-to-S3 glue: the API client (github_api.py), the   *)
(* storage uploader (s3_uploader.py), the orchestrator and configuration   *)
(* loader (main.py) and the logging facility (logger.py).                  *)
(*                                                                         *)
(* Python values are records with a "tag" field.  A call is modelled by an *)
(* operator that returns an outcome record                                 *)
(*     [ret |-> value, exc |-> exception, log |-> entries, ...]            *)
(* where exc = NoExc when the call returns normally.                       *)
(***************************************************************************)
EXTENDS Integers, Sequences, FiniteSets, TLC

VARIABLES
    log,                \* entries handed to the module loggers, in order
    provider,           \* the answers the HTTP provider can give
    backend,            \* the outcomes the storage backend can have
    github_api_client,  \* the GitHubAPI instance
    api_call,           \* the latest call on the API client and its outcome
    api_calls,          \* number of calls made on the API client
    s3_uploader,        \* the S3Uploader instance
    objects,            \* object storage: <<bucket, key>> -> stored body
    s3_call,            \* the latest call on the uploader and its outcome
    s3_calls,           \* number of calls made on the uploader
    logger_defined,     \* main.py: whether the module global `logger` exists
    username,           \* per invocation: the username argument
    pc,                 \* per invocation: position in upload_github_data_to_s3
    user_details,       \* per invocation: local user_details
    user_repos,         \* per invocation: local user_repos
    pending,            \* per invocation: exception travelling to the except clause
    escaped,            \* per invocation: exception that left the function
    events,             \* per invocation: external events, in order
    uploads,            \* per invocation: uploader calls issued [data, key, ret]
    written,            \* per invocation: keys whose object it stored
    file,               \* config file: its lines, as <<key, value>> pairs
    file_pos,           \* config file: read position of the open stream
    main_pc,            \* position in the __main__ block
    config,             \* __main__: the value bound to `config`
    main_exc,           \* __main__: exception that ended the script
    github_base_url,    \* __main__: the value bound to `github_base_url`
    github_token,       \* __main__: the value bound to `github_token`
    handlers,           \* logger.py: logger name -> handlers attached, in order
    levels,             \* logger.py: logger name -> level set on the logger
    clock,              \* logger.py: wall clock, in seconds
    emitted,            \* logger.py: lines the handlers delivered
    constructions       \* logger.py: number of log_this constructions

apiVars == <<github_api_client, api_call, api_calls>>
s3Vars == <<s3_uploader, objects, s3_call, s3_calls>>
orchVars == <<logger_defined, username, pc, user_details, user_repos, pending,
              escaped, events, uploads, written>>
mainVars == <<file, file_pos, main_pc, config, main_exc, github_base_url,
              github_token>>
loggingVars == <<handlers, levels, clock, emitted, constructions>>
envVars == <<provider, backend>>
vars == <<log, envVars, apiVars, s3Vars, orchVars, mainVars, loggingVars>>

(***************************************************************************)
(* Bounds of the model.                                                    *)
(***************************************************************************)
MaxRepos == 1          \* longest repository list the provider answers with
MaxApiCalls == 2       \* calls made on the API client on its own
MaxS3Calls == 2        \* calls made on the uploader on its own
MaxConfigLines == 2    \* lines of the configuration file
MaxConstructions == 3  \* log_this constructions
MaxEmitted == 4        \* lines delivered to the log sinks

(***************************************************************************)
(* Python values and exceptions.                                           *)
(***************************************************************************)
None == [tag |-> "None"]
PyStr(s) == [tag |-> "str", s |-> s]
PyDict(login, id) == [tag |-> "dict", login |-> login, id |-> id]
PyList(items) == [tag |-> "list", items |-> items]

NoExc == [type |-> "none", msg |-> ""]
Exc(type, msg) == [type |-> type, msg |-> msg]

Entry(name, level, msg) == [name |-> name, level |-> level, msg |-> msg]
Errors(entries) == SelectSeq(entries, LAMBDA e : e.level = "ERROR")

Usernames == {"octocat", "hubot"}
RepoNames == <<"hello", "spoon", "git">>
RepoLists == {PyList(SubSeq(RepoNames, 1, n)) : n \in 0..MaxRepos}
JsonValues == {None, PyDict("octocat", "1")} \cup RepoLists

RECURSIVE Join(_, _)
Join(strings, sep) ==
    IF strings = <<>> THEN ""
    ELSE IF Len(strings) = 1 THEN strings[1]
    ELSE strings[1] \o sep \o Join(Tail(strings), sep)

\* json text of a value, as the provider sends it
json_dumps(v) ==
    CASE v.tag = "None" -> "null"
      [] v.tag = "dict" ->
            "{\"login\": \"" \o v.login \o "\", \"id\": " \o v.id \o "}"
      [] v.tag = "list" ->
            "[" \o Join([i \in 1..Len(v.items) |->
                            "{\"name\": \"" \o v.items[i] \o "\"}"], ", ") \o "]"

\* str(data), the object body of an upload
str(v) ==
    CASE v.tag = "None" -> "None"
      [] v.tag = "str" -> v.s
      [] v.tag = "dict" ->
            "{'login': '" \o v.login \o "', 'id': " \o v.id \o "}"
      [] v.tag = "list" ->
            "[" \o Join([i \in 1..Len(v.items) |->
                            "{'name': '" \o v.items[i] \o "'}"], ", ") \o "]"

(***************************************************************************)
(* The provider: what requests.request does with a request.                *)
(***************************************************************************)
Statuses == {200, 304, 404}
StatusText(s) ==
    CASE s = 200 -> "200 OK"
      [] s = 304 -> "304 Not Modified"
      [] s = 404 -> "404 Client Error: Not Found"
Texts == {json_dumps(v) : v \in JsonValues} \cup {"<html>"}
Response(status, text) == [tag |-> "Response", status |-> status, text |-> text]
Raise(e) == [tag |-> "raise", exc |-> e]
Answers ==
    {Raise(Exc("ConnectionError", "Connection refused"))}
        \cup {Response(s, t) : s \in Statuses, t \in Texts}

RequestExceptions == {"ConnectionError", "Timeout", "HTTPError", "JSONDecodeError"}

\* Response.raise_for_status()
raise_for_status(response) ==
    IF response.status >= 400 /\ response.status < 600
    THEN Exc("HTTPError", StatusText(response.status))
    ELSE NoExc

\* bool(x) of None or of a Response (Response.ok)
Truthy(x) == x.tag = "Response" /\ raise_for_status(x) = NoExc

\* Response.json()
IsJson(text) == \E v \in JsonValues : json_dumps(v) = text
json(response) ==
    IF IsJson(response.text)
    THEN [ret |-> CHOOSE v \in JsonValues : json_dumps(v) = response.text,
          exc |-> NoExc]
    ELSE [ret |-> None,
          exc |-> Exc("JSONDecodeError", "Expecting value: line 1 column 1 (char 0)")]

(***************************************************************************)
(* github_api.py                                                           *)
(***************************************************************************)
\* GitHubAPI.__init__
GitHubAPI(base_url, token) ==
    [tag |-> "GitHubAPI", base_url |-> base_url,
     headers |-> [Authorization |-> "token " \o token]]

\* GitHubAPI.handle_request_error: the entries it logs
handle_request_error(self, error) ==
    <<Entry("github_api", "ERROR", "Error during request: " \o error.msg)>>

\* send_http_request with `except requests.exceptions.ConnectionError`: an
\* HTTPError raised by raise_for_status is not caught
send_http_request_narrow(self, url, method, params, answer) ==
    LET request == [method |-> method, url |-> url, headers |-> self.headers,
                    params |-> params]
        status == IF answer.tag = "raise" THEN NoExc ELSE raise_for_status(answer)
        raised == IF answer.tag = "raise" THEN answer.exc ELSE status
    IN  IF raised = NoExc
        THEN [ret |-> answer, exc |-> NoExc, req |-> request,
              log |-> <<Entry("github_api", "INFO", "Request successful")>>]
        ELSE IF raised.type = "ConnectionError"
        THEN [ret |-> None, exc |-> NoExc, req |-> request,
              log |-> handle_request_error(self, raised)]
        ELSE [ret |-> None, exc |-> raised, req |-> request, log |-> <<>>]

\* GitHubAPI.send_http_request; `answer` is what requests.request does
send_http_request(self, url, method, params, answer) ==
    LET request == [method |-> method, url |-> url, headers |-> self.headers,
                    params |-> params]
        status == IF answer.tag = "raise" THEN NoExc ELSE raise_for_status(answer)
        raised == IF answer.tag = "raise" THEN answer.exc
                  ELSE IF status = NoExc THEN NoExc
                  ELSE Exc(status.type, status.msg \o " for url: " \o url)
    IN  IF raised = NoExc
        THEN [ret |-> answer, exc |-> NoExc, req |-> request,
              log |-> <<Entry("github_api", "INFO", "Request successful")>>]
        ELSE IF raised.type \in RequestExceptions
        THEN [ret |-> None, exc |-> NoExc, req |-> request,
              log |-> handle_request_error(self, raised)]
        ELSE [ret |-> None, exc |-> raised, req |-> request, log |-> <<>>]

\* make_request with `data = response.json(); return data if data else None`:
\* an empty decoded body is replaced by None
make_request_falsy(self, endpoint, method, params, answer) ==
    LET url == self.base_url \o endpoint
        first == <<Entry("github_api", "INFO",
                         "Making a " \o method \o " request to " \o url)>>
        sent == send_http_request(self, url, method, params, answer)
        decoded == IF sent.exc = NoExc /\ Truthy(sent.ret)
                   THEN json(sent.ret)
                   ELSE [ret |-> None, exc |-> sent.exc]
    IN  [ret |-> IF decoded.ret = PyList(<<>>) THEN None ELSE decoded.ret,
         exc |-> decoded.exc, req |-> sent.req, log |-> first \o sent.log]

\* GitHubAPI.make_request
make_request(self, endpoint, method, params, answer) ==
    LET url == self.base_url \o endpoint
        first == <<Entry("github_api", "INFO",
                         "Making a " \o method \o " request to " \o url)>>
        sent == send_http_request(self, url, method, params, answer)
        response == sent.ret
        decoded == IF sent.exc = NoExc /\ Truthy(response)
                   THEN json(response)
                   ELSE [ret |-> None, exc |-> sent.exc]
    IN  [ret |-> decoded.ret, exc |-> decoded.exc, req |-> sent.req,
         log |-> first \o sent.log]

\* GitHubAPI.get_user_details
get_user_details(self, user, answer) ==
    LET made == make_request(self, "users/" \o user, "GET", None, answer)
    IN  [made EXCEPT !.log = <<Entry("github_api", "INFO",
                                     "Fetching user details for " \o user)>> \o @]

\* GitHubAPI.get_user_repos
get_user_repos(self, user, answer) ==
    LET made == make_request(self, "users/" \o user \o "/repos", "GET", None, answer)
    IN  [made EXCEPT !.log = <<Entry("github_api", "INFO",
                                     "Fetching repositories for " \o user)>> \o @]

(***************************************************************************)
(* s3_uploader.py                                                          *)
(***************************************************************************)
\* what s3_client.put_object can do: store the object, or raise
PutOutcomes ==
    {NoExc,
     Exc("BotoCoreError", "Unable to locate credentials"),
     Exc("ClientError", "An error occurred (AccessDenied)"),
     Exc("RuntimeError", "backend failure")}
BotoExceptions == {"BotoCoreError", "ClientError"}
PutResponse == [tag |-> "dict", login |-> "ResponseMetadata", id |-> "200"]

\* S3Uploader.__init__
S3Uploader(bucket_name) == [tag |-> "S3Uploader", bucket_name |-> bucket_name]

\* S3Uploader.log_s3_upload_error: the entries it logs
log_s3_upload_error(self, error) ==
    <<Entry("s3_uploader", "ERROR", "Error uploading data to S3: " \o error.msg)>>

\* upload_data_to_s3 with `except ClientError`: a BotoCoreError is not caught
upload_data_to_s3_narrow(self, data, key, outcome) ==
    LET put == [Body |-> str(data), Bucket |-> self.bucket_name, Key |-> key]
    IN  IF outcome = NoExc
        THEN [ret |-> PutResponse, exc |-> NoExc, put |-> put, stored |-> TRUE,
              log |-> <<Entry("s3_uploader", "INFO",
                              "Data uploaded to " \o self.bucket_name \o "/" \o key)>>]
        ELSE IF outcome.type = "ClientError"
        THEN [ret |-> None, exc |-> NoExc, put |-> put, stored |-> FALSE,
              log |-> log_s3_upload_error(self, outcome)]
        ELSE [ret |-> None, exc |-> outcome, put |-> put, stored |-> FALSE,
              log |-> <<>>]

\* S3Uploader.upload_data_to_s3; `outcome` is what put_object does
upload_data_to_s3(self, data, key, outcome) ==
    LET put == [Body |-> str(data), Bucket |-> self.bucket_name, Key |-> key]
    IN  IF outcome = NoExc
        THEN [ret |-> PutResponse, exc |-> NoExc, put |-> put, stored |-> TRUE,
              log |-> <<Entry("s3_uploader", "INFO",
                              "Data uploaded to " \o self.bucket_name \o "/" \o key)>>]
        ELSE IF outcome.type \in BotoExceptions
        THEN [ret |-> None, exc |-> NoExc, put |-> put, stored |-> FALSE,
              log |-> log_s3_upload_error(self, outcome)]
        ELSE [ret |-> None, exc |-> outcome, put |-> put, stored |-> FALSE,
              log |-> <<>>]

\* the object store after a put_object that succeeded
Stored(store, put) == (<<put.Bucket, put.Key>> :> put.Body) @@ store

(***************************************************************************)
(* main.py: upload_github_data_to_s3, one action per statement.            *)
(***************************************************************************)
\* the details key with the suffix of the repos key
details_key_pasted(user) == user \o "_repos.json"
\* f"{username}_details.json"
details_key(user) == user \o "_details.json"

\* the repos key without the username
repos_key_unscoped(user) == "repos.json"
\* f"{username}_repos.json"
repos_key(user) == user \o "_repos.json"

\* the try block with the details upload moved before the second fetch
following_swapped(statement) ==
    CASE statement = "get_user_details" -> "upload_details"
      [] statement = "upload_details" -> "get_user_repos"
      [] statement = "get_user_repos" -> "upload_repos"
      [] statement = "upload_repos" -> "log_success"
      [] statement = "log_success" -> "returned"
\* the statement that follows a statement of the try block
following(statement) ==
    CASE statement = "get_user_details" -> "get_user_repos"
      [] statement = "get_user_repos" -> "upload_details"
      [] statement = "upload_details" -> "upload_repos"
      [] statement = "upload_repos" -> "log_success"
      [] statement = "log_success" -> "returned"

\* a call on main.py's module global `logger`, which only the __main__ block
\* defines
main_logger(level, msg) ==
    IF logger_defined
    THEN [exc |-> NoExc, log |-> <<Entry("__main__", level, msg)>>]
    ELSE [exc |-> Exc("NameError", "name 'logger' is not defined"), log |-> <<>>]

\* where a statement of the try block leaves invocation i
Continue(i, statement, exc) ==
    IF exc = NoExc
    THEN /\ pc' = [pc EXCEPT ![i] = following(statement)]
         /\ UNCHANGED pending
    ELSE /\ pc' = [pc EXCEPT ![i] = "except"]
         /\ pending' = [pending EXCEPT ![i] = exc]

\* user_details = api_client.get_user_details(username)
FetchDetails(i) ==
    /\ pc[i] = "get_user_details"
    /\ \E answer \in provider :
          LET r == get_user_details(github_api_client, username[i], answer)
          IN  /\ log' = log \o r.log
              /\ events' = [events EXCEPT ![i] = Append(@, "fetch_details")]
              /\ user_details' = [user_details EXCEPT
                                    ![i] = IF r.exc = NoExc THEN r.ret ELSE @]
              /\ Continue(i, "get_user_details", r.exc)
    /\ UNCHANGED <<envVars, apiVars, s3Vars, mainVars, loggingVars,
                   logger_defined, username, user_repos, escaped, uploads, written>>

\* user_repos = api_client.get_user_repos(username)
FetchRepos(i) ==
    /\ pc[i] = "get_user_repos"
    /\ \E answer \in provider :
          LET r == get_user_repos(github_api_client, username[i], answer)
          IN  /\ log' = log \o r.log
              /\ events' = [events EXCEPT ![i] = Append(@, "fetch_repos")]
              /\ user_repos' = [user_repos EXCEPT
                                  ![i] = IF r.exc = NoExc THEN r.ret ELSE @]
              /\ Continue(i, "get_user_repos", r.exc)
    /\ UNCHANGED <<envVars, apiVars, s3Vars, mainVars, loggingVars,
                   logger_defined, username, user_details, escaped, uploads, written>>

\* uploader.upload_data_to_s3(data, key), as statement `statement` of invocation i
Upload(i, statement, event, data, key) ==
    /\ pc[i] = statement
    /\ \E outcome \in backend :
          LET r == upload_data_to_s3(s3_uploader, data, key, outcome)
          IN  /\ log' = log \o r.log
              /\ events' = [events EXCEPT ![i] = Append(@, event)]
              /\ uploads' = [uploads EXCEPT
                               ![i] = Append(@, [data |-> data, key |-> key,
                                                 ret |-> r.ret])]
              /\ objects' = IF r.stored THEN Stored(objects, r.put) ELSE objects
              /\ written' = [written EXCEPT
                               ![i] = IF r.stored THEN @ \cup {r.put.Key} ELSE @]
              /\ Continue(i, statement, r.exc)
    /\ UNCHANGED <<envVars, apiVars, s3_uploader, s3_call, s3_calls, mainVars,
                   loggingVars, logger_defined, username, user_details,
                   user_repos, escaped>>

\* uploader.upload_data_to_s3(user_details, f"{username}_details.json")
UploadDetails(i) ==
    Upload(i, "upload_details", "upload_details", user_details[i],
           details_key(username[i]))

\* uploader.upload_data_to_s3(user_repos, f"{username}_repos.json")
UploadRepos(i) ==
    Upload(i, "upload_repos", "upload_repos", user_repos[i],
           repos_key(username[i]))

\* logger.info(f"User Details and Repositories for '{username}' uploaded to S3")
LogSuccess(i) ==
    /\ pc[i] = "log_success"
    /\ LET r == main_logger("INFO", "User Details and Repositories for '"
                                        \o username[i] \o "' uploaded to S3")
       IN  /\ log' = log \o r.log
           /\ events' = [events EXCEPT
                           ![i] = IF r.exc = NoExc THEN Append(@, "success_log") ELSE @]
           /\ Continue(i, "log_success", r.exc)
    /\ UNCHANGED <<envVars, apiVars, s3Vars, mainVars, loggingVars, logger_defined,
                   username, user_details, user_repos, escaped, uploads, written>>

\* except Exception as e: logger.error(f"An error occurred ...: {e}")
Except(i) ==
    /\ pc[i] = "except"
    /\ LET r == main_logger("ERROR",
                    "An error occurred during data fetching or uploading: "
                        \o pending[i].msg)
       IN  /\ log' = log \o r.log
           /\ escaped' = [escaped EXCEPT ![i] = r.exc]
           /\ pc' = [pc EXCEPT ![i] = IF r.exc = NoExc THEN "returned" ELSE "raised"]
    /\ UNCHANGED <<envVars, apiVars, s3Vars, mainVars, loggingVars, logger_defined,
                   username, user_details, user_repos, pending, events, uploads,
                   written>>

(***************************************************************************)
(* Initial states.                                                         *)
(***************************************************************************)
BaseUrl == "https://api.example.com/"
Token == "abc"
BucketName == "bucket"

\* module-level logger lines of the imports, then the two constructors
StartLog ==
    <<Entry("s3_uploader", "INFO", "S3 Uploader initialized"),
      Entry("github_api", "INFO", "GitHub API initialized"),
      Entry("github_api", "INFO", "GitHub API client initialized"),
      Entry("s3_uploader", "INFO", "S3 Uploader initialized")>>

NoCall == [op |-> "none"]
EmptyStore == [k \in {} |-> ""]
OrchKeys == {details_key(u) : u \in Usernames} \cup {repos_key(u) : u \in Usernames}
OldStore == [k \in {BucketName} \X OrchKeys |-> "old"]

InitClients ==
    /\ log = StartLog
    /\ github_api_client = GitHubAPI(BaseUrl, Token)
    /\ api_call = NoCall
    /\ api_calls = 0
    /\ s3_uploader = S3Uploader(BucketName)
    /\ s3_call = NoCall
    /\ s3_calls = 0

\* invocations `invocations` of upload_github_data_to_s3 about to start
InitOrch(invocations) ==
    /\ username \in [invocations -> Usernames]
    /\ pc = [i \in invocations |-> "get_user_details"]
    /\ user_details = [i \in invocations |-> None]
    /\ user_repos = [i \in invocations |-> None]
    /\ pending = [i \in invocations |-> NoExc]
    /\ escaped = [i \in invocations |-> NoExc]
    /\ events = [i \in invocations |-> <<>>]
    /\ uploads = [i \in invocations |-> <<>>]
    /\ written = [i \in invocations |-> {}]

InitMainIdle ==
    /\ file = <<>>
    /\ file_pos = 0
    /\ main_pc = "idle"
    /\ config = None
    /\ main_exc = NoExc
    /\ github_base_url = None
    /\ github_token = None

InitLoggingIdle ==
    /\ handlers = [n \in {} |-> <<>>]
    /\ levels = [n \in {} |-> 0]
    /\ clock = 0
    /\ emitted = <<>>
    /\ constructions = 0

(***************************************************************************)
(* Spec: one invocation of upload_github_data_to_s3, called either from    *)
(* the script (logger defined) or from an importing module (not defined).  *)
(***************************************************************************)
Init ==
    /\ InitClients
    /\ provider = Answers
    /\ backend = PutOutcomes
    /\ objects \in {EmptyStore, OldStore}
    /\ logger_defined \in BOOLEAN
    /\ InitOrch({1})
    /\ InitMainIdle
    /\ InitLoggingIdle

Next ==
    \/ \E i \in DOMAIN pc : FetchDetails(i)
    \/ \E i \in DOMAIN pc : FetchRepos(i)
    \/ \E i \in DOMAIN pc : UploadDetails(i)
    \/ \E i \in DOMAIN pc : UploadRepos(i)
    \/ \E i \in DOMAIN pc : LogSuccess(i)
    \/ \E i \in DOMAIN pc : Except(i)

Spec == Init /\ [][Next]_vars

(***************************************************************************)
(* SpecConcurrent: two invocations of upload_github_data_to_s3 interleaved *)
(* statement by statement, called from the script, against one bucket.     *)
(***************************************************************************)
ConcurrentAnswers ==
    {Response(200, json_dumps(PyDict("octocat", "1"))), Response(200, "<html>")}
ConcurrentOutcomes == {NoExc, Exc("ClientError", "An error occurred (AccessDenied)")}

InitConcurrent ==
    /\ InitClients
    /\ provider = ConcurrentAnswers
    /\ backend = ConcurrentOutcomes
    /\ objects = EmptyStore
    /\ logger_defined = TRUE
    /\ InitOrch({1, 2})
    /\ username[1] = "octocat"
    /\ InitMainIdle
    /\ InitLoggingIdle

SpecConcurrent == InitConcurrent /\ [][Next]_vars

(***************************************************************************)
(* SpecApi: calls made on the API client on its own.                       *)
(***************************************************************************)
ApiCall(op, arg, r) ==
    /\ api_call' = [op |-> op, arg |-> arg, ret |-> r.ret, exc |-> r.exc,
                    log |-> r.log, req |-> r.req]
    /\ api_calls' = api_calls + 1
    /\ log' = log \o r.log
    /\ UNCHANGED <<envVars, github_api_client, s3Vars, orchVars, mainVars,
                   loggingVars>>

CallGetUserDetails ==
    /\ api_calls < MaxApiCalls
    /\ \E user \in Usernames, answer \in provider :
          ApiCall("get_user_details", [user |-> user, answer |-> answer],
                  get_user_details(github_api_client, user, answer))

CallGetUserRepos ==
    /\ api_calls < MaxApiCalls
    /\ \E user \in Usernames, answer \in provider :
          ApiCall("get_user_repos", [user |-> user, answer |-> answer],
                  get_user_repos(github_api_client, user, answer))

CallMakeRequest ==
    /\ api_calls < MaxApiCalls
    /\ \E endpoint \in {"rate_limit"}, answer \in provider :
          ApiCall("make_request", [user |-> endpoint, answer |-> answer],
                  make_request(github_api_client, endpoint, "GET", None, answer))

InitApi ==
    /\ InitClients
    /\ provider = Answers
    /\ backend = PutOutcomes
    /\ objects = EmptyStore
    /\ logger_defined = FALSE
    /\ InitOrch({})
    /\ InitMainIdle
    /\ InitLoggingIdle

NextApi == CallGetUserDetails \/ CallGetUserRepos \/ CallMakeRequest

SpecApi == InitApi /\ [][NextApi]_vars

(***************************************************************************)
(* SpecS3: calls made on the uploader on its own.                          *)
(***************************************************************************)
S3Keys == {"octocat_details.json", "notes.txt"}
S3Data == JsonValues \cup {PyStr("hello")}

CallUpload ==
    /\ s3_calls < MaxS3Calls
    /\ \E data \in S3Data, key \in S3Keys, outcome \in backend :
          LET r == upload_data_to_s3(s3_uploader, data, key, outcome)
          IN  /\ s3_call' = [op |-> "upload_data_to_s3", data |-> data, key |-> key,
                             outcome |-> outcome, ret |-> r.ret, exc |-> r.exc,
                             log |-> r.log, put |-> r.put]
              /\ objects' = IF r.stored THEN Stored(objects, r.put) ELSE objects
              /\ log' = log \o r.log
    /\ s3_calls' = s3_calls + 1
    /\ UNCHANGED <<envVars, apiVars, s3_uploader, orchVars, mainVars, loggingVars>>

InitS3 ==
    /\ InitClients
    /\ provider = Answers
    /\ backend = PutOutcomes
    /\ objects \in {EmptyStore, [k \in {BucketName} \X S3Keys |-> "old"]}
    /\ logger_defined = FALSE
    /\ InitOrch({})
    /\ InitMainIdle
    /\ InitLoggingIdle

NextS3 == CallUpload

SpecS3 == InitS3 /\ [][NextS3]_vars

(***************************************************************************)
(* Claims on the API client, checked under SpecApi.                        *)
(***************************************************************************)
ApiCalled == api_call.op # "none"
ApiAnswer == api_call.arg.answer
ApiFailedQuietly ==
    /\ api_call.ret = None
    /\ api_call.exc = NoExc
    /\ Len(Errors(api_call.log)) = 1

C6_DecodedBodyUnchanged ==
    (api_call.op \in {"get_user_details", "get_user_repos"}
        /\ ApiAnswer.tag = "Response" /\ ApiAnswer.status = 200)
    => /\ \A v \in JsonValues :
            json_dumps(v) = ApiAnswer.text
                => api_call.ret = v /\ api_call.exc = NoExc
       /\ api_call.req.method = "GET"
       /\ api_call.req.headers = [Authorization |-> "token abc"]
       /\ api_call.req.url =
            "https://api.example.com/users/" \o api_call.arg.user
                \o (IF api_call.op = "get_user_repos" THEN "/repos" ELSE "")

C6_Witness ==
    /\ api_call.op = "get_user_repos"
    /\ ApiAnswer = Response(200, "[]")
    /\ api_call.ret = PyList(<<>>)
    /\ api_call.req.url = "https://api.example.com/users/octocat/repos"

(***************************************************************************)
(* Claims on the uploader, checked under SpecS3.                           *)
(***************************************************************************)
S3Called == s3_call.op # "none"
S3FailedQuietly ==
    /\ s3_call.ret = None
    /\ s3_call.exc = NoExc
    /\ Len(Errors(s3_call.log)) >= 1

Invocations == DOMAIN pc
Finished(i) == pc[i] \in {"returned", "raised"}
IsPrefix(s, t) == Len(s) <= Len(t) /\ SubSeq(t, 1, Len(s)) = s
Range(f) == {f[x] : x \in DOMAIN f}
SuccessLine(user) ==
    Entry("__main__", "INFO",
          "User Details and Repositories for '" \o user \o "' uploaded to S3")
SuccessLines(user) == SelectSeq(log, LAMBDA e : e = SuccessLine(user))
\* i is past its four calls on the client and the uploader and none raised
CallsReturned(i) ==
    /\ pc[i] \in {"log_success", "except", "returned", "raised"}
    /\ pending[i].type \in {"none", "NameError"}

\* C3 as stated: an invocation never ends with an exception leaving the
\* function, and an exception caught on the way is logged with its message.
C3_NeverPropagates ==
    \A i \in Invocations :
        /\ pc[i] # "raised"
        /\ (pc[i] = "returned" /\ pending[i] # NoExc) =>
              Entry("__main__", "ERROR",
                    "An error occurred during data fetching or uploading: "
                        \o pending[i].msg) \in Range(log)

ExpectedEvents ==
    <<"fetch_details", "fetch_repos", "upload_details", "upload_repos", "success_log">>

\* C4: the external events of an invocation always form a prefix of: fetch
\* details, fetch repos, upload details, upload repos, success line; an
\* invocation that returned with no step having raised produced exactly that
\* sequence and exactly one success line naming its username, and the
\* success line is logged at no earlier point.
C4_EventOrder ==
    \A i \in Invocations :
        /\ IsPrefix(events[i], ExpectedEvents)
        /\ (pc[i] = "returned" /\ pending[i] = NoExc) =>
              /\ events[i] = ExpectedEvents
              /\ Len(SuccessLines(username[i])) = 1
        /\ "success_log" \notin Range(events[i]) =>
              Len(SuccessLines(username[i])) = 0

C4_Witness ==
    \E i \in Invocations :
        /\ pc[i] = "returned"
        /\ pending[i] = NoExc
        /\ events[i] = ExpectedEvents

UploadArgs(i) ==
    [k \in 1..Len(uploads[i]) |->
        [data |-> uploads[i][k].data, key |-> uploads[i][k].key]]
ExpectedUploads(i) ==
    <<[data |-> user_details[i], key |-> username[i] \o "_details.json"],
      [data |-> user_repos[i], key |-> username[i] \o "_repos.json"]>>

C10_AbsentIsUploaded ==
    \A i \in Invocations :
        (Finished(i) /\ CallsReturned(i)) =>
            /\ user_details[i] = None =>
                  /\ Len(uploads[i]) = 2
                  /\ uploads[i][1].data = None
                  /\ uploads[i][1].key = username[i] \o "_details.json"
                  /\ uploads[i][1].ret # None =>
                        objects[<<BucketName, uploads[i][1].key>>] = "None"
                  /\ Len(SuccessLines(username[i])) = 1
            /\ user_repos[i] = None =>
                  /\ Len(uploads[i]) = 2
                  /\ uploads[i][2].data = None
                  /\ uploads[i][2].key = username[i] \o "_repos.json"
                  /\ uploads[i][2].ret # None =>
                        objects[<<BucketName, uploads[i][2].key>>] = "None"
                  /\ Len(SuccessLines(username[i])) = 1

(***************************************************************************)
(* Claim on concurrent invocations, checked under SpecConcurrent.          *)
(***************************************************************************)
KeysOf(user) == {user \o "_details.json", user \o "_repos.json"}
UploadsStored(i) ==
    {uploads[i][k].key : k \in {k \in 1..Len(uploads[i]) : uploads[i][k].ret # None}}
\* the body of the latest upload of invocation i that stored key
LastBody(i, key) ==
    LET ks == {k \in 1..Len(uploads[i]) :
                  uploads[i][k].key = key /\ uploads[i][k].ret # None}
        last == CHOOSE k \in ks : \A m \in ks : m <= k
    IN  str(uploads[i][last].data)

ConfigLines ==
    {<<"github_base_url", "https://api.example.com/">>,
     <<"github_base_url", "https://ghe.example.com/api/v3/">>,
     <<"github_token", "abc">>,
     <<"github_token", "xyz">>,
     <<"s3_bucket_name", "bucket">>}
ConfigFiles == UNION {[1..n -> ConfigLines] : n \in 0..MaxConfigLines}

\* the mapping a YAML document of "key: value" lines stands for (a key given
\* twice keeps its last value)
Mapping(lines) ==
    [tag |-> "mapping",
     items |-> [key \in {lines[k][1] : k \in 1..Len(lines)} |->
                  lines[CHOOSE k \in 1..Len(lines) :
                          /\ lines[k][1] = key
                          /\ \A m \in 1..Len(lines) : lines[m][1] = key => m <= k][2]]]

\* str() of None or of a mapping, keys in the order of the file
RECURSIVE ItemStrings(_, _)
ItemStrings(lines, mapping) ==
    IF lines = <<>> THEN <<>>
    ELSE LET key == lines[1][1]
             rest == ItemStrings(Tail(lines), mapping)
         IN  <<<<key, mapping.items[key]>>>>
                 \o SelectSeq(rest, LAMBDA item : item[1] # key)
Repr(lines, value) ==
    IF value = None THEN "None"
    ELSE LET items == ItemStrings(lines, value)
         IN  "{" \o Join([k \in 1..Len(items) |->
                            "'" \o items[k][1] \o "': '" \o items[k][2] \o "'"],
                         ", ") \o "}"

\* yaml.safe_load(file): parses what the stream still holds from position
\* pos on and leaves the stream at its end; None when nothing is left
safe_load(lines, pos) ==
    [ret |-> IF pos >= Len(lines) THEN None
             ELSE Mapping(SubSeq(lines, pos + 1, Len(lines))),
     pos |-> Len(lines)]

\* load_configuration(file_name) on a file holding `lines`
load_configuration(file_name, lines) ==
    LET shown == safe_load(lines, 0)
        loaded == safe_load(lines, shown.pos)
        l1 == main_logger("DEBUG", "Loading configuration from " \o file_name)
        l2 == main_logger("DEBUG", "Configuration: " \o Repr(lines, shown.ret))
        l3 == main_logger("DEBUG", "Configuration loaded successfully")
    IN  IF l1.exc # NoExc
        THEN [ret |-> None, exc |-> l1.exc, pos |-> 0, log |-> <<>>]
        ELSE [ret |-> loaded.ret, exc |-> NoExc, pos |-> loaded.pos,
              log |-> l1.log \o l2.log \o l3.log]

\* config[key]
Subscript(mapping, key) ==
    IF mapping = None
    THEN [ret |-> None, exc |-> Exc("TypeError", "'NoneType' object is not subscriptable")]
    ELSE IF key \notin DOMAIN mapping.items
    THEN [ret |-> None, exc |-> Exc("KeyError", key)]
    ELSE [ret |-> PyStr(mapping.items[key]), exc |-> NoExc]

\* logger = log_this(__name__, level=logging.DEBUG); logger.info("Program started.")
MainLogger ==
    /\ main_pc = "logger"
    /\ logger_defined' = TRUE
    /\ log' = Append(log, Entry("__main__", "INFO", "Program started."))
    /\ main_pc' = "load_configuration"
    /\ UNCHANGED <<envVars, apiVars, s3Vars, loggingVars, username, pc, user_details,
                   user_repos, pending, escaped, events, uploads, written, file,
                   file_pos, config, main_exc, github_base_url, github_token>>

\* config = load_configuration("config.yml")
MainLoadConfiguration ==
    /\ main_pc = "load_configuration"
    /\ LET r == load_configuration("config.yml", file)
       IN  /\ config' = r.ret
           /\ file_pos' = r.pos
           /\ log' = log \o r.log
           /\ main_exc' = r.exc
           /\ main_pc' = IF r.exc = NoExc THEN "lookups" ELSE "crashed"
    /\ UNCHANGED <<envVars, apiVars, s3Vars, loggingVars, orchVars, file,
                   github_base_url, github_token>>

\* github_base_url = config["github_base_url"]; github_token =
\* config["github_token"]; github_api_client = GitHubAPI(github_base_url,
\* github_token)
MainLookups ==
    /\ main_pc = "lookups"
    /\ LET url == Subscript(config, "github_base_url")
           token == Subscript(config, "github_token")
       IN  IF url.exc # NoExc
           THEN /\ main_exc' = url.exc
                /\ main_pc' = "crashed"
                /\ UNCHANGED <<github_base_url, github_token, github_api_client, log>>
           ELSE IF token.exc # NoExc
           THEN /\ main_exc' = token.exc
                /\ main_pc' = "crashed"
                /\ github_base_url' = url.ret
                /\ UNCHANGED <<github_token, github_api_client, log>>
           ELSE /\ github_base_url' = url.ret
                /\ github_token' = token.ret
                /\ github_api_client' = GitHubAPI(url.ret.s, token.ret.s)
                /\ log' = Append(log, Entry("github_api", "INFO",
                                            "GitHub API client initialized"))
                /\ main_pc' = "done"
                /\ UNCHANGED main_exc
    /\ UNCHANGED <<envVars, api_call, api_calls, s3Vars, loggingVars, orchVars,
                   file, file_pos, config>>

\* the imports of main.py are done, no client is constructed yet
InitNoClients ==
    /\ log = <<Entry("s3_uploader", "INFO", "S3 Uploader initialized"),
               Entry("github_api", "INFO", "GitHub API initialized")>>
    /\ github_api_client = None
    /\ api_call = NoCall
    /\ api_calls = 0
    /\ s3_uploader = None
    /\ s3_call = NoCall
    /\ s3_calls = 0
    /\ provider = Answers
    /\ backend = PutOutcomes
    /\ objects = EmptyStore
    /\ logger_defined = FALSE
    /\ InitOrch({})

InitMain ==
    /\ InitNoClients
    /\ file \in ConfigFiles
    /\ file_pos = 0
    /\ main_pc = "logger"
    /\ config = None
    /\ main_exc = NoExc
    /\ github_base_url = None
    /\ github_token = None
    /\ InitLoggingIdle

NextMain == MainLogger \/ MainLoadConfiguration \/ MainLookups

SpecMain == InitMain /\ [][NextMain]_vars

HoldsBothKeys(lines) ==
    {"github_base_url", "github_token"} \subseteq {lines[k][1] : k \in 1..Len(lines)}

\* C7 as stated: for a file holding github_base_url and github_token,
\* load_configuration returns the mapping of the file's keys and values, and
\* the entry point's lookups yield the file's values.
C7_ConfigIsFileMapping ==
    (HoldsBothKeys(file) /\ main_pc \in {"lookups", "crashed", "done"}) =>
        /\ config = Mapping(file)
        /\ main_pc # "crashed"
        /\ main_pc = "done" =>
              /\ github_base_url = PyStr(Mapping(file).items["github_base_url"])
              /\ github_token = PyStr(Mapping(file).items["github_token"])

(***************************************************************************)
(* logger.py, checked under SpecLogging.  logging.getLogger(name) answers  *)
(* the one logger of that name, so `handlers` and `levels` are per name.   *)
(***************************************************************************)
DEBUG == 10
INFO == 20
ERROR == 40
LevelName(level) ==
    CASE level = DEBUG -> "DEBUG" [] level = INFO -> "INFO" [] level = ERROR -> "ERROR"
LoggerNames == {"github_api", "s3_uploader"}
LogFiles == {None, PyStr("app.log")}
\* datetime.now().strftime('%Y%m%d%H%M%S') at second `now`
Timestamp(now) ==
    CASE now = 0 -> "20240101000000"
      [] now = 1 -> "20240101000001"
      [] now = 2 -> "20240101000002"
      [] now = 3 -> "20240101000003"
      [] OTHER -> "20240101000004"

HandlersOf(name) == IF name \in DOMAIN handlers THEN handlers[name] ELSE <<>>

\* log_this.__init__(name, log_file, level) at second `now`: the handlers of
\* the logger of that name afterwards
log_this(name, log_file, level, now) ==
    LET path == IF log_file = None
                THEN "logs/" \o name \o "_" \o Timestamp(now) \o ".log"
                ELSE log_file.s
        file_handler == [kind |-> "file", target |-> path, level |-> level]
        console_handler == [kind |-> "console", target |-> "stderr", level |-> level]
    IN  Append(Append(HandlersOf(name), file_handler), console_handler)

\* log_this(name, log_file, level)
Construct ==
    /\ constructions < MaxConstructions
    /\ \E name \in LoggerNames, log_file \in LogFiles, level \in {DEBUG, INFO},
          now \in {clock, clock + 1} :
          /\ handlers' = (name :> log_this(name, log_file, level, now)) @@ handlers
          /\ levels' = (name :> level) @@ levels
          /\ clock' = now
    /\ constructions' = constructions + 1
    /\ UNCHANGED <<log, envVars, apiVars, s3Vars, orchVars, mainVars, emitted>>

\* the lines one call of Logger.log delivers: none below the logger's level,
\* else one per handler whose level admits the record
Deliver(name, level, message, call, now) ==
    IF level < levels[name] THEN <<>>
    ELSE LET admitted == SelectSeq(handlers[name], LAMBDA h : level >= h.level)
         IN  [k \in 1..Len(admitted) |->
                [target |-> admitted[k].target, kind |-> admitted[k].kind,
                 call |-> call,
                 line |-> Timestamp(now) \o " - " \o name \o " - "
                            \o LevelName(level) \o " - " \o message]]

\* log_this.debug / info / error (message) on an instance for `name`
LogMessage ==
    /\ Len(emitted) < MaxEmitted
    /\ \E name \in DOMAIN handlers, level \in {DEBUG, INFO, ERROR} :
          LET call == IF emitted = <<>> THEN 1 ELSE emitted[Len(emitted)].call + 1
          IN  emitted' = emitted \o Deliver(name, level, "message", call, clock)
    /\ UNCHANGED <<log, envVars, apiVars, s3Vars, orchVars, mainVars, handlers,
                   levels, clock, constructions>>

\* a process in which log_this has not been constructed yet
InitLogging ==
    /\ log = <<>>
    /\ github_api_client = None
    /\ api_call = NoCall
    /\ api_calls = 0
    /\ s3_uploader = None
    /\ s3_call = NoCall
    /\ s3_calls = 0
    /\ provider = Answers
    /\ backend = PutOutcomes
    /\ objects = EmptyStore
    /\ logger_defined = FALSE
    /\ InitOrch({})
    /\ InitMainIdle
    /\ InitLoggingIdle

NextLogging == Construct \/ LogMessage

SpecLogging == InitLogging /\ [][NextLogging]_vars

HandlerCount(name, kind) ==
    Cardinality({k \in 1..Len(handlers[name]) : handlers[name][k].kind = kind})
Deliveries(call, kind) ==
    Len(SelectSeq(emitted, LAMBDA e : e.call = call /\ e.kind = kind))

\* C8 as stated: after any sequence of log_this constructions the logger of
\* each name has exactly one file handler and one console handler, and no
\* message is delivered more than once to the files or to the console.
C8_OneHandlerPairPerName ==
    /\ \A name \in DOMAIN handlers :
          HandlerCount(name, "file") = 1 /\ HandlerCount(name, "console") = 1
    /\ \A k \in 1..Len(emitted) :
          /\ Deliveries(emitted[k].call, "file") = 1
          /\ Deliveries(emitted[k].call, "console") = 1
====
